---- MODULE Spec2Model ----
(***************************************************************************)
(* A model of the layer wrappers of tensorlayer/layers/convolution/        *)
(* atrous_conv.py and tensorlayer/layers/normalization.py.                 *)
(*                                                                         *)
(* One behaviour follows one layer object through its life: the            *)
(* constructor, then compile (atrous layers) or build and forward (the     *)
(* build-style normalization layers), then evaluations of the output (the  *)
(* graph being run).  The framework's variable store may already hold the  *)
(* variables of earlier layers.  A Python exception ends the behaviour.    *)
(***************************************************************************)
EXTENDS Integers, Sequences, FiniteSets, TLC

(***************************************************************************)
(* Bounds of the model.                                                    *)
(***************************************************************************)
\* channel counts (and the other sizes of an input tensor) range over 1..MaxChannels
MaxChannels == 3
\* GroupNorm's groups ranges over -2..MaxGroups
MaxGroups == 4
\* decay and the statistics are fixed-point numbers k / Resolution
Resolution == 2
\* evaluations of a BatchNorm output in one behaviour
MaxEvals == 2
\* variables of earlier layers already in the variable store
MaxPrior == 1

VARIABLES
    pc,      \* where the layer is in its life: start, constructed, built, done, raised
    op,      \* the method called last: none, __init__, compile, build, forward, run
    args,    \* the arguments the constructor was called with
    layer,   \* the fields of the layer object
    store,   \* the framework's variable store: the variables created, in order
    err,     \* the exception the last call raised, or NoError
    run      \* the last evaluation of the output: its number, the batch's
             \* statistics, and the statistics the output was normalized with

vars == <<pc, op, args, layer, store, err, run>>

(***************************************************************************)
(* Strings whose characters matter (padding) are sequences of characters.  *)
(***************************************************************************)
LowerAlphabet ==
    <<"a", "b", "c", "d", "e", "f", "g", "h", "i", "j", "k", "l", "m",
      "n", "o", "p", "q", "r", "s", "t", "u", "v", "w", "x", "y", "z">>

UpperAlphabet ==
    <<"A", "B", "C", "D", "E", "F", "G", "H", "I", "J", "K", "L", "M",
      "N", "O", "P", "Q", "R", "S", "T", "U", "V", "W", "X", "Y", "Z">>

UpperChar(c) ==
    IF \E i \in DOMAIN LowerAlphabet : LowerAlphabet[i] = c
    THEN UpperAlphabet[CHOOSE i \in DOMAIN LowerAlphabet : LowerAlphabet[i] = c]
    ELSE c

\* a plausible slip: the padding is used as given
upper_identity(s) == s

\* str.upper()
upper(s) == [i \in DOMAIN s |-> UpperChar(s[i])]

SAME == <<"S", "A", "M", "E">>
VALID == <<"V", "A", "L", "I", "D">>

LowerChar(c) ==
    IF \E i \in DOMAIN UpperAlphabet : UpperAlphabet[i] = c
    THEN LowerAlphabet[CHOOSE i \in DOMAIN UpperAlphabet : UpperAlphabet[i] = c]
    ELSE c

\* every way of writing the word w in upper- and lower-case letters
RECURSIVE Casings(_)
Casings(w) ==
    IF w = <<>>
    THEN { <<>> }
    ELSE { <<c>> \o t : c \in {w[1], LowerChar(w[1])}, t \in Casings(Tail(w)) }

\* padding strings that are no casing of SAME or VALID
OtherPaddings ==
    { <<"B", "O", "G", "U", "S">>, <<"b", "o", "g", "u", "s">>, <<>>,
      <<"S", "A", "M">>, <<"s", "a", "m", "e", "e">>, <<"V", "A", "L", "I", "D", " ">>,
      <<"F", "U", "L", "L">> }

PaddingInputs == Casings(SAME) \cup Casings(VALID) \cup OtherPaddings

(***************************************************************************)
(* Values.                                                                 *)
(***************************************************************************)
None == "None"

\* Python's truth value of an initializer argument: None is false, an
\* initializer object (or class) is true
Truthy(x) == x # None

NoError == [type |-> "none", msg |-> ""]

\* Python's % for a non-zero divisor: the result has the divisor's sign
PyMod(a, b) == IF b > 0 THEN a % b ELSE -((-a) % (-b))

\* Python's // for a non-zero divisor: floor division
PyFloorDiv(a, b) == IF b > 0 THEN a \div b ELSE (-a) \div (-b)

Channels == 1..MaxChannels

\* input tensors, by their static shape: 4-D (batch 1, then sizes from
\* Channels on axis 1 and on the last axis), and ranks 2, 3 and 5
Shapes4D == { <<1, c1, 1, c2>> : c1 \in Channels, c2 \in Channels }

ShapesOther == { <<1, 2>>, <<1, 1, 2>>, <<1, 2, 1, 1, MaxChannels>> }

InputShapes == Shapes4D \cup ShapesOther

\* the constructor's arguments, one record for every class; a field a class
\* does not have keeps its value here
NoArgs ==
    [ kind |-> None, padding |-> <<>>, b_init |-> None, act |-> None, n_filter |-> 0,
      filter_size |-> <<>>, shape |-> <<>>, decay |-> 0, is_train |-> FALSE,
      beta_init |-> None, gamma_init |-> None, data_format |-> None, groups |-> 1,
      center |-> FALSE, scale |-> FALSE, inputs |-> <<>> ]

\* the layer object's fields; NoLayer before a constructor has returned
NoLayer ==
    [ kind |-> None, padding |-> <<>>, b_init |-> None, act |-> None, n_filter |-> 0,
      filter_size |-> <<>>, shape |-> <<>>, data_format |-> None, groups |-> 1,
      beta_init |-> None, gamma_init |-> None, is_train |-> FALSE, decay |-> 0,
      inputs |-> <<>>, outputs |-> <<>>, local_weights |-> <<>>, weights |-> <<>>,
      attrs |-> {}, int_shape |-> <<>>, out_shape |-> <<>>, op_padding |-> <<>>,
      norm_with |-> None, control_deps |-> {}, graph_ops |-> {}, axes |-> {},
      moving_mean |-> 0, moving_variance |-> 0 ]

\* what a method works on and leaves behind: the object, the variable store
\* and the exception raised
Raise(st, type, msg) == [st EXCEPT !.err = [type |-> type, msg |-> msg]]


(***************************************************************************)
(* The framework and the base class Layer, which this code calls.          *)
(***************************************************************************)
Variable(scope, name, shape, initializer, trainable) ==
    [ scope |-> scope, name |-> name, shape |-> shape, initializer |-> initializer,
      trainable |-> trainable ]

\* tf.get_variable: the variable is created in the variable store
tf_get_variable(st, v) == [st EXCEPT !.store = Append(@, v)]

\* Layer._get_tf_variable: tf.get_variable, and the variable joins the
\* layer's local weights
Layer_get_tf_variable(st, v) ==
    [tf_get_variable(st, v) EXCEPT !.layer.local_weights = Append(@, v)]

\* Layer._add_params, Layer.add_weights: the variables are registered as the
\* layer's weights
Layer_add_params(st, params) == [st EXCEPT !.layer.weights = @ \o params]

\* Layer._apply_activation, on the output built so far
Layer_apply_activation(outputs) == Append(outputs, "_apply_activation")

\* Layer.compile / Layer._parse_inputs: the layer's input is the previous
\* layer's output tensor
Layer_compile(st, inputs) == [st EXCEPT !.layer.inputs = inputs]

\* Layer.__init__: a new object of the class, nothing built
Layer_init(kind) == [NoLayer EXCEPT !.kind = kind]

(***************************************************************************)
(* atrous_conv.py                                                          *)
(***************************************************************************)
\* a plausible slip: every padding passes
padding_ok_any(padding) == TRUE

\* padding in ["SAME", "VALID"]
padding_ok(padding) == padding \in {SAME, VALID}

PaddingError ==
    [ type |-> "ValueError",
      msg |-> "`padding` value is not valid, should be either: 'SAME' or 'VALID'" ]

\* AtrousConv2dLayer.__init__
AtrousConv2dLayer_init(st, a) ==
    LET padding == upper(a.padding) IN
    IF ~padding_ok(padding)
    THEN Raise(st, PaddingError.type, PaddingError.msg)
    ELSE [st EXCEPT !.layer =
            [Layer_init("AtrousConv2dLayer") EXCEPT
                !.n_filter = a.n_filter, !.filter_size = a.filter_size,
                !.padding = padding, !.b_init = a.b_init, !.act = a.act]]

\* a plausible slip: the bias is added whatever b_init is
use_bias_always(b_init) == TRUE

\* `if self.b_init:`
use_bias(b_init) == Truthy(b_init)

\* AtrousConv2dLayer.compile
AtrousConv2dLayer_compile(st, inputs) ==
    LET s0 == Layer_compile(st, inputs)
        shape == <<s0.layer.filter_size[1], s0.layer.filter_size[2],
                   inputs[Len(inputs)], s0.layer.n_filter>>
        s1 == Layer_get_tf_variable(s0,
                Variable("atrous_2d", "W_atrous_conv2d", shape, "W_init", TRUE))
        s2 == [s1 EXCEPT !.layer.outputs = <<"atrous_conv2d">>,
                         !.layer.op_padding = s1.layer.padding]
        s3 == IF use_bias(s2.layer.b_init)
              THEN [Layer_get_tf_variable(s2,
                      Variable("atrous_2d", "b_atrous_conv2d", <<s2.layer.n_filter>>,
                               s2.layer.b_init, TRUE))
                     EXCEPT !.layer.outputs = Append(@, "bias_add")]
              ELSE s2
        s4 == [s3 EXCEPT !.layer.outputs = Layer_apply_activation(@)]
    IN Layer_add_params(s4, s4.layer.local_weights)

\* AtrousDeConv2dLayer.__init__
AtrousDeConv2dLayer_init(st, a) ==
    LET padding == upper(a.padding) IN
    IF ~padding_ok(padding)
    THEN Raise(st, PaddingError.type, PaddingError.msg)
    ELSE [st EXCEPT !.layer =
            [Layer_init("AtrousDeConv2dLayer") EXCEPT
                !.shape = a.shape, !.padding = padding, !.b_init = a.b_init,
                !.act = a.act]]

\* the arguments AtrousDeConv2dLayer.compile gives compute_deconv2d_output_shape
\* after the input: filter height, filter width, the strides, the output size
deconv_out_shape_args(shape) == <<shape[1], shape[2], 1, 1, shape[3]>>

\* a plausible slip: the bias takes the last entry of shape, in_channels
deconv_bias_shape_last(shape) == <<shape[Len(shape)]>>

\* AtrousDeConv2dLayer.compile: the bias's shape, (self.shape[-2])
deconv_bias_shape(shape) == <<shape[Len(shape) - 1]>>

\* AtrousDeConv2dLayer.compile
AtrousDeConv2dLayer_compile(st, inputs) ==
    LET s0 == Layer_compile(st, inputs)
        s1 == Layer_get_tf_variable(s0,
                Variable("atrous_2d_transpose", "W_atrous_conv2d_transpose",
                         s0.layer.shape, "W_init", TRUE))
        s2 == [s1 EXCEPT !.layer.out_shape = deconv_out_shape_args(s1.layer.shape),
                         !.layer.outputs = <<"atrous_conv2d_transpose">>,
                         !.layer.op_padding = s1.layer.padding]
        s3 == IF use_bias(s2.layer.b_init)
              THEN [Layer_get_tf_variable(s2,
                      Variable("atrous_2d_transpose", "b_atrous_conv2d_transpose",
                               deconv_bias_shape(s2.layer.shape),
                               s2.layer.b_init, TRUE))
                     EXCEPT !.layer.outputs = Append(@, "bias_add")]
              ELSE s2
        s4 == [s3 EXCEPT !.layer.outputs = Layer_apply_activation(@)]
    IN Layer_add_params(s4, s4.layer.local_weights)


(***************************************************************************)
(* normalization.py                                                        *)
(***************************************************************************)
\* LocalResponseNorm.__init__
LocalResponseNorm_init(st, a) == [st EXCEPT !.layer = Layer_init("LocalResponseNorm")]

\* LocalResponseNorm.build
LocalResponseNorm_build(st, inputs) == [st EXCEPT !.layer.inputs = inputs]

\* LocalResponseNorm.forward
LocalResponseNorm_forward(st) == [st EXCEPT !.layer.outputs = <<"lrn">>]

\* a plausible slip: the bounds themselves are rejected
decay_out_of_range_strict(decay) == decay <= 0 \/ Resolution <= decay

\* `decay < 0 or 1 < decay`, decay in units of 1 / Resolution
decay_out_of_range(decay) == decay < 0 \/ Resolution < decay

DecayError == [type |-> "Exception", msg |-> "decay should be between 0 to 1"]

DataFormatError ==
    [ type |-> "ValueError",
      msg |-> "data_format should be either channels_last or channels_first" ]

\* a plausible slip: channels_first takes the first axis, the batch's
BatchNorm_axis_first(data_format, x_shape) ==
    IF data_format = "channels_last" THEN Len(x_shape)
    ELSE IF data_format = "channels_first" THEN 1
    ELSE 0

\* BatchNorm.__init__: the channel axis of data_format, counted from 1
\* (0 for a data_format the code rejects)
BatchNorm_axis(data_format, x_shape) ==
    IF data_format = "channels_last" THEN Len(x_shape)
    ELSE IF data_format = "channels_first" THEN 2
    ELSE 0

\* BatchNorm.__init__: the axes the moments are taken over
BatchNorm_axes(x_shape, axis) == { i \in 1..Len(x_shape) : i # axis }

\* a plausible slip: gamma is created before beta
BatchNorm_beta_gamma_swapped(st, a, params_shape) ==
    LET s1 == IF Truthy(a.gamma_init)
              THEN tf_get_variable(st,
                     Variable("batchnorm", "gamma", params_shape, a.gamma_init, a.is_train))
              ELSE st
        s2 == IF Truthy(a.beta_init)
              THEN tf_get_variable(s1,
                     Variable("batchnorm", "beta", params_shape, a.beta_init, a.is_train))
              ELSE s1
    IN s2

\* BatchNorm.__init__, "1. beta, gamma": the variables list after it is the
\* part of the store this call has added
BatchNorm_beta_gamma(st, a, params_shape) ==
    LET s1 == IF Truthy(a.beta_init)
              THEN tf_get_variable(st,
                     Variable("batchnorm", "beta", params_shape, a.beta_init, a.is_train))
              ELSE st
        s2 == IF Truthy(a.gamma_init)
              THEN tf_get_variable(s1,
                     Variable("batchnorm", "gamma", params_shape, a.gamma_init, a.is_train))
              ELSE s1
    IN s2

\* a plausible slip: the update ops are made dependencies of the output
\* whatever is_train is
BatchNorm_mean_var_always_update(is_train) ==
    [ norm_with |-> IF is_train THEN "batch" ELSE "moving",
      control_deps |-> {"update_moving_mean", "update_moving_variance"} ]

\* BatchNorm.__init__, "3.": the mean and variance the output is normalized
\* with, and the ops that run before they are read
BatchNorm_mean_var(is_train) ==
    IF is_train
    THEN [ norm_with |-> "batch",
           control_deps |-> {"update_moving_mean", "update_moving_variance"} ]
    ELSE [ norm_with |-> "moving", control_deps |-> {} ]

\* BatchNorm.__init__
BatchNorm_init(st, a) ==
    LET x_shape == a.inputs
        axis == BatchNorm_axis(a.data_format, x_shape)
    IN
    IF decay_out_of_range(a.decay)
    THEN Raise(st, DecayError.type, DecayError.msg)
    ELSE IF axis = 0
    THEN Raise(st, DataFormatError.type, DataFormatError.msg)
    ELSE
    LET params_shape == <<x_shape[axis]>>
        n0 == Len(st.store)
        s1 == BatchNorm_beta_gamma(st, a, params_shape)
        variables == SubSeq(s1.store, n0 + 1, Len(s1.store))
        moving_mean == Variable("batchnorm", "moving_mean", params_shape,
                                "moving_mean_init", FALSE)
        moving_variance == Variable("batchnorm", "moving_variance", params_shape,
                                    "constant_1", FALSE)
        s2 == tf_get_variable(tf_get_variable(s1, moving_mean), moving_variance)
        mv == BatchNorm_mean_var(a.is_train)
        l == [Layer_init("BatchNorm") EXCEPT
                !.inputs = x_shape, !.act = a.act, !.is_train = a.is_train,
                !.decay = a.decay, !.data_format = a.data_format,
                !.beta_init = a.beta_init, !.gamma_init = a.gamma_init,
                !.axes = BatchNorm_axes(x_shape, axis),
                !.moving_mean = 0, !.moving_variance = Resolution,
                !.graph_ops = {"moments", "update_moving_mean", "update_moving_variance"},
                !.norm_with = mv.norm_with, !.control_deps = mv.control_deps,
                !.outputs = Layer_apply_activation(<<"batch_normalization">>)]
    IN Layer_add_params([s2 EXCEPT !.layer = l],
                        variables \o <<moving_mean, moving_variance>>)

\* moving_averages.assign_moving_average(variable, value, decay,
\* zero_debias=False): variable -= (1 - decay) * (variable - value)
assign_moving_average(variable, value, decay) ==
    variable - (((Resolution - decay) * (variable - value)) \div Resolution)


\* a plausible slip: the constructor creates a variable, as the layer did
\* before it had a build method
InstanceNorm_init_creates(st, a) ==
    LET scale == Variable("", "\\scale", <<1>>, "truncated_normal", TRUE)
        s0 == [st EXCEPT !.layer = [Layer_init("InstanceNorm") EXCEPT !.act = a.act]]
    IN Layer_add_params(tf_get_variable(s0, scale), <<scale>>)

\* InstanceNorm.__init__
InstanceNorm_init(st, a) ==
    [st EXCEPT !.layer = [Layer_init("InstanceNorm") EXCEPT !.act = a.act]]

\* InstanceNorm.build
InstanceNorm_build(st, inputs) ==
    LET c == inputs[Len(inputs)]
        scale == Variable("", "\\scale", <<c>>, "truncated_normal", TRUE)
        offset == Variable("", "\\offset", <<c>>, "constant_0", TRUE)
        s1 == tf_get_variable(tf_get_variable(st, scale), offset)
    IN Layer_add_params([s1 EXCEPT !.layer.attrs = @ \cup {"scale", "offset"}],
                        <<scale, offset>>)

\* InstanceNorm.forward: self.act is called whatever it is
InstanceNorm_forward(st) ==
    IF st.layer.act = None
    THEN Raise(st, "TypeError", "'NoneType' object is not callable")
    ELSE [st EXCEPT !.layer.outputs = <<"moments", "normalize", "act">>]

\* LayerNorm.__init__: tf.contrib.layers.layer_norm creates beta (center) and
\* gamma (scale) in the scope and builds the output
LayerNorm_init(st, a) ==
    LET n0 == Len(st.store)
        s1 == IF a.center
              THEN tf_get_variable(st, Variable("layernorm/var", "beta", <<>>, "zeros", TRUE))
              ELSE st
        s2 == IF a.scale
              THEN tf_get_variable(s1, Variable("layernorm/var", "gamma", <<>>, "ones", TRUE))
              ELSE s1
        variables == SubSeq(s2.store, n0 + 1, Len(s2.store))
        l == [Layer_init("LayerNorm") EXCEPT
                !.inputs = a.inputs, !.act = a.act, !.outputs = <<"layer_norm">>]
    IN Layer_add_params([s2 EXCEPT !.layer = l], variables)

\* GroupNorm.__init__
GroupNorm_init(st, a) ==
    [st EXCEPT !.layer =
        [Layer_init("GroupNorm") EXCEPT
            !.groups = a.groups, !.act = a.act, !.data_format = a.data_format]]

\* GroupNorm.build: the channel count of the input
GroupNorm_channels(data_format, shape) ==
    IF data_format = "channels_last" THEN shape[Len(shape)] ELSE shape[2]

\* GroupNorm.build: self.int_shape
GroupNorm_int_shape(data_format, shape, groups, channels) ==
    IF data_format = "channels_last"
    THEN SubSeq(shape, 1, 3) \o <<groups, PyFloorDiv(channels, groups)>>
    ELSE SubSeq(shape, 1, 1) \o <<groups, PyFloorDiv(channels, groups)>> \o SubSeq(shape, 3, 4)

\* a plausible slip: the check is left out
not_commensurate_unchecked(channels, groups) == FALSE

\* `channels % self.groups != 0`
not_commensurate(channels, groups) == PyMod(channels, groups) # 0

\* GroupNorm.build up to its last check
GroupNorm_validate(st, shape) ==
    LET l == st.layer
        channels == GroupNorm_channels(l.data_format, shape)
    IN
    IF Len(shape) # 4
    THEN Raise(st, "Exception", "GroupNorm only supports 2D images.")
    ELSE IF l.data_format \notin {"channels_last", "channels_first"}
    THEN Raise(st, "ValueError", "data_format must be 'channels_last' or 'channels_first'.")
    ELSE IF l.groups = 0
    THEN Raise(st, "ZeroDivisionError", "integer division or modulo by zero")
    ELSE
    LET s1 == [st EXCEPT !.layer.int_shape =
                 GroupNorm_int_shape(l.data_format, shape, l.groups, channels),
                 !.layer.attrs = @ \cup {"int_shape"}]
    IN
    IF l.groups > channels
    THEN Raise(s1, "ValueError", "Invalid groups")
    ELSE IF not_commensurate(channels, l.groups)
    THEN Raise(s1, "ValueError", "not commensurate")
    ELSE s1

\* GroupNorm.build from the creation of gamma and beta on; self.bata is no
\* attribute of the layer
GroupNorm_create(st, channels) ==
    LET shape == IF st.layer.data_format = "channels_last"
                 THEN <<channels>> ELSE <<1, channels, 1, 1>>
        gamma == Variable("", "gamma", shape, "ones", TRUE)
        beta == Variable("", "beta", shape, "zeros", TRUE)
        s1 == tf_get_variable(tf_get_variable(st, gamma), beta)
        s2 == [s1 EXCEPT !.layer.attrs = @ \cup {"gamma", "beta"}]
    IN IF "bata" \in s2.layer.attrs
       THEN Layer_add_params(s2, <<gamma, beta>>)
       ELSE Raise(s2, "AttributeError", "'GroupNorm' object has no attribute 'bata'")

\* a plausible slip: gamma and beta are created before the checks
GroupNorm_build_create_first(st, inputs) ==
    LET s1 == GroupNorm_create(st, GroupNorm_channels(st.layer.data_format, inputs))
        s2 == GroupNorm_validate([s1 EXCEPT !.err = NoError], inputs)
    IN IF s2.err # NoError THEN s2 ELSE [s2 EXCEPT !.err = s1.err]

\* GroupNorm.build
GroupNorm_build(st, inputs) ==
    LET s1 == GroupNorm_validate(st, inputs)
    IN IF s1.err # NoError
       THEN s1
       ELSE GroupNorm_create(s1, GroupNorm_channels(s1.layer.data_format, inputs))

\* GroupNorm.forward
GroupNorm_forward(st) ==
    [st EXCEPT !.layer.outputs =
        <<"reshape", "moments", "normalize", "reshape">>
        \o (IF st.layer.act # None THEN <<"act">> ELSE <<>>)]

\* SwitchNorm.__init__
SwitchNorm_init(st, a) ==
    [st EXCEPT !.layer =
        [Layer_init("SwitchNorm") EXCEPT
            !.act = a.act, !.beta_init = a.beta_init, !.gamma_init = a.gamma_init]]

\* SwitchNorm.build: gamma_init is no name of the method's scope
SwitchNorm_build(st, inputs) ==
    Raise(st, "NameError", "name 'gamma_init' is not defined")

\* SwitchNorm.forward
SwitchNorm_forward(st) ==
    [st EXCEPT !.layer.outputs =
        <<"moments", "softmax", "normalize">>
        \o (IF st.layer.act # None THEN <<"act">> ELSE <<>>)]


\* running the graph for the layer's output on a batch: the ops the output
\* depends on run first, then the output is computed from the mean and
\* variance the constructor chose
Session_run(l, batch) ==
    LET mm == IF "update_moving_mean" \in l.control_deps
              THEN assign_moving_average(l.moving_mean, batch.mean, l.decay)
              ELSE l.moving_mean
        mv == IF "update_moving_variance" \in l.control_deps
              THEN assign_moving_average(l.moving_variance, batch.variance, l.decay)
              ELSE l.moving_variance
    IN [ layer |-> [l EXCEPT !.moving_mean = mm, !.moving_variance = mv],
         mean |-> IF l.norm_with = "batch" THEN batch.mean ELSE mm,
         variance |-> IF l.norm_with = "batch" THEN batch.variance ELSE mv ]

(***************************************************************************)
(* The inputs.                                                             *)
(***************************************************************************)
Initializers == {None, "initializer"}

Activations == {None, "relu"}

FilterSizes == { <<3, 3>>, <<1, 2>> }

\* (filter_height, filter_width, out_channels, in_channels)
DeconvShapes == { <<3, 3, o, i>> : o \in Channels, i \in Channels }

DataFormats == {"channels_last", "channels_first", "NHWC"}

Decays == -1..(Resolution + 1)

Groups == (-2)..MaxGroups

\* the statistics of a batch, in units of 1 / Resolution
Batches ==
    { [mean |-> 0, variance |-> Resolution], [mean |-> 2 * Resolution, variance |-> 0] }

\* the variables of earlier layers
PriorStore(n) == [i \in 1..n |-> Variable("prev", "W", <<i>>, "initializer", TRUE)]

NoRun == [n |-> 0, batch |-> [mean |-> 0, variance |-> 0], mean |-> 0, variance |-> 0]

(***************************************************************************)
(* The state machine.                                                      *)
(***************************************************************************)
Init ==
    /\ pc = "start"
    /\ op = "none"
    /\ args = NoArgs
    /\ layer = NoLayer
    /\ store \in { PriorStore(n) : n \in 0..MaxPrior }
    /\ err = NoError
    /\ run = NoRun

Here == [layer |-> layer, store |-> store, err |-> NoError]

\* a call has returned res or raised res.err
Returns(name, res, next) ==
    /\ op' = name
    /\ layer' = res.layer
    /\ store' = res.store
    /\ err' = res.err
    /\ pc' = IF res.err = NoError THEN next ELSE "raised"

New(a, res, next) ==
    /\ pc = "start"
    /\ args' = a
    /\ Returns("__init__", res, next)
    /\ UNCHANGED run

NewAtrousConv2dLayer ==
    \E padding \in PaddingInputs, b_init \in Initializers, act \in Activations,
       n_filter \in Channels, filter_size \in FilterSizes :
        LET a == [NoArgs EXCEPT !.kind = "AtrousConv2dLayer", !.padding = padding,
                                !.b_init = b_init, !.act = act, !.n_filter = n_filter,
                                !.filter_size = filter_size]
        IN New(a, AtrousConv2dLayer_init(Here, a), "constructed")

NewAtrousDeConv2dLayer ==
    \E padding \in PaddingInputs, b_init \in Initializers, act \in Activations,
       shape \in DeconvShapes :
        LET a == [NoArgs EXCEPT !.kind = "AtrousDeConv2dLayer", !.padding = padding,
                                !.b_init = b_init, !.act = act, !.shape = shape]
        IN New(a, AtrousDeConv2dLayer_init(Here, a), "constructed")

NewLocalResponseNorm ==
    LET a == [NoArgs EXCEPT !.kind = "LocalResponseNorm"]
    IN New(a, LocalResponseNorm_init(Here, a), "constructed")

NewBatchNorm ==
    \E inputs \in InputShapes, decay \in Decays, is_train \in BOOLEAN,
       beta_init \in Initializers, gamma_init \in Initializers,
       data_format \in DataFormats :
        LET a == [NoArgs EXCEPT !.kind = "BatchNorm", !.inputs = inputs, !.decay = decay,
                                !.is_train = is_train, !.beta_init = beta_init,
                                !.gamma_init = gamma_init, !.data_format = data_format]
        IN New(a, BatchNorm_init(Here, a), "done")

NewInstanceNorm ==
    \E act \in Activations :
        LET a == [NoArgs EXCEPT !.kind = "InstanceNorm", !.act = act]
        IN New(a, InstanceNorm_init(Here, a), "constructed")

NewLayerNorm ==
    \E inputs \in InputShapes, center \in BOOLEAN, scale \in BOOLEAN :
        LET a == [NoArgs EXCEPT !.kind = "LayerNorm", !.inputs = inputs,
                                !.center = center, !.scale = scale]
        IN New(a, LayerNorm_init(Here, a), "done")

NewGroupNorm ==
    \E groups \in Groups, data_format \in DataFormats, act \in Activations :
        LET a == [NoArgs EXCEPT !.kind = "GroupNorm", !.groups = groups,
                                !.data_format = data_format, !.act = act]
        IN New(a, GroupNorm_init(Here, a), "constructed")

NewSwitchNorm ==
    \E act \in Activations, beta_init \in Initializers, gamma_init \in Initializers :
        LET a == [NoArgs EXCEPT !.kind = "SwitchNorm", !.act = act,
                                !.beta_init = beta_init, !.gamma_init = gamma_init]
        IN New(a, SwitchNorm_init(Here, a), "constructed")

\* compile of an atrous layer against a 4-D input; the deconvolution's input
\* has the filter's in_channels
Compile ==
    /\ pc = "constructed"
    /\ layer.kind \in {"AtrousConv2dLayer", "AtrousDeConv2dLayer"}
    /\ \E inputs \in Shapes4D :
        /\ layer.kind = "AtrousDeConv2dLayer" => inputs[4] = layer.shape[4]
        /\ Returns("compile",
                   IF layer.kind = "AtrousConv2dLayer"
                   THEN AtrousConv2dLayer_compile(Here, inputs)
                   ELSE AtrousDeConv2dLayer_compile(Here, inputs),
                   "done")
    /\ UNCHANGED <<args, run>>

BuildStyle == {"LocalResponseNorm", "InstanceNorm", "GroupNorm", "SwitchNorm"}

\* build of a build-style layer against an input, which the base class has
\* made the layer's input
Build ==
    /\ pc = "constructed"
    /\ layer.kind \in BuildStyle
    /\ \E inputs \in InputShapes :
        LET st == Layer_compile(Here, inputs) IN
        Returns("build",
                CASE layer.kind = "LocalResponseNorm" -> LocalResponseNorm_build(st, inputs)
                  [] layer.kind = "InstanceNorm" -> InstanceNorm_build(st, inputs)
                  [] layer.kind = "GroupNorm" -> GroupNorm_build(st, inputs)
                  [] layer.kind = "SwitchNorm" -> SwitchNorm_build(st, inputs),
                "built")
    /\ UNCHANGED <<args, run>>

Forward ==
    /\ pc = "built"
    /\ Returns("forward",
               CASE layer.kind = "LocalResponseNorm" -> LocalResponseNorm_forward(Here)
                 [] layer.kind = "InstanceNorm" -> InstanceNorm_forward(Here)
                 [] layer.kind = "GroupNorm" -> GroupNorm_forward(Here)
                 [] layer.kind = "SwitchNorm" -> SwitchNorm_forward(Here),
               "done")
    /\ UNCHANGED <<args, run>>

\* the output of a BatchNorm layer is evaluated on a batch
Run ==
    /\ pc = "done"
    /\ layer.kind = "BatchNorm"
    /\ run.n < MaxEvals
    /\ \E batch \in Batches :
        LET r == Session_run(layer, batch) IN
        /\ layer' = r.layer
        /\ run' = [n |-> run.n + 1, batch |-> batch, mean |-> r.mean,
                   variance |-> r.variance]
    /\ op' = "run"
    /\ UNCHANGED <<pc, args, store, err>>

Next ==
    \/ NewAtrousConv2dLayer
    \/ NewAtrousDeConv2dLayer
    \/ NewLocalResponseNorm
    \/ NewBatchNorm
    \/ NewInstanceNorm
    \/ NewLayerNorm
    \/ NewGroupNorm
    \/ NewSwitchNorm
    \/ Compile
    \/ Build
    \/ Forward
    \/ Run

Spec == Init /\ [][Next]_vars


(***************************************************************************)
(* Properties.                                                             *)
(***************************************************************************)
Atrous == {"AtrousConv2dLayer", "AtrousDeConv2dLayer"}

\* the variables this layer's calls have added to the store
NewVariables == SelectSeq(store, LAMBDA v : v.scope # "prev")

Names(vs) == [i \in DOMAIN vs |-> vs[i].name]

\* C1 as stated: an atrous constructor given a padding string other than
\* "SAME" and "VALID" raises the padding ValueError.
C1_NotSameNorValidFails ==
    (args.kind \in Atrous /\ args.padding \notin {SAME, VALID})
        => (pc = "raised" /\ err = PaddingError)

\* C1, amended: an atrous constructor given a padding string that is no
\* spelling of "SAME" or "VALID" in upper- and lower-case letters raises the
\* padding ValueError, whatever the other arguments are, and no layer object
\* comes of it.
C1_BogusPaddingFails ==
    (args.kind \in Atrous /\ args.padding \notin Casings(SAME) \cup Casings(VALID))
        => (pc = "raised" /\ op = "__init__" /\ err = PaddingError /\ layer = NoLayer)

C1_Witness ==
    /\ args.kind = "AtrousDeConv2dLayer"
    /\ args.padding = <<"B", "O", "G", "U", "S">>
    /\ args.b_init = None
    /\ err.type = "ValueError"
    /\ pc = "raised"

\* the channel count of a 4-D input under a data_format
ChannelCount(data_format, shape) ==
    IF data_format = "channels_last" THEN shape[4] ELSE shape[2]

\* C2: GroupNorm.build against a 4-D input whose channel count is no multiple
\* of groups raises a ValueError, under channels_last and channels_first.
C2_NotDivisibleFails ==
    (/\ layer.kind = "GroupNorm"
     /\ op = "build"
     /\ Len(layer.inputs) = 4
     /\ layer.data_format \in {"channels_last", "channels_first"}
     /\ layer.groups # 0
     /\ PyMod(ChannelCount(layer.data_format, layer.inputs), layer.groups) # 0)
        => (pc = "raised" /\ err.type = "ValueError")

C2_Witness ==
    /\ layer.kind = "GroupNorm"
    /\ op = "build"
    /\ layer.data_format = "channels_first"
    /\ layer.inputs = <<1, 3, 1, 1>>
    /\ layer.groups = 2
    /\ err = [type |-> "ValueError", msg |-> "not commensurate"]

\* C3: the BatchNorm constructor raises its decay exception exactly when
\* decay < 0 or decay > 1; a decay in [0, 1], the endpoints included, passes.
C3_DecayRange ==
    args.kind = "BatchNorm"
        => /\ (err = DecayError) <=> (args.decay < 0 \/ args.decay > Resolution)
           /\ (0 <= args.decay /\ args.decay <= Resolution)
                => (err # DecayError /\ (args.data_format \in {"channels_last", "channels_first"}
                                            => (err = NoError /\ layer.kind = "BatchNorm")))

C3_Witness ==
    /\ args.kind = "BatchNorm"
    /\ args.decay = Resolution
    /\ op = "__init__"
    /\ pc = "done"
    /\ err = NoError

\* nothing of the layer is built: no variable of its own in the store, no
\* registered weight, no output tensor
NothingBuilt ==
    /\ NewVariables = <<>>
    /\ layer.weights = <<>>
    /\ layer.outputs = <<>>

\* C4 as stated: for every layer class, after the constructor and before any
\* compile, build or forward, no weight variable and no output exists.
C4_ConstructorBuildsNothing == op \in {"none", "__init__"} => NothingBuilt

InConstructor == {"BatchNorm", "LayerNorm"}

\* C4, amended: for AtrousConv2dLayer, AtrousDeConv2dLayer, LocalResponseNorm,
\* InstanceNorm, GroupNorm and SwitchNorm the constructor creates no weight
\* variable and no output tensor, and these exist only after compile, build
\* or forward; the constructors of BatchNorm and LayerNorm take the input and
\* themselves create the variables, register them and build the output.
C4_ConstructorBuildsNothingButBatchLayerNorm ==
    /\ (op \in {"none", "__init__"} /\ args.kind \notin InConstructor) => NothingBuilt
    /\ (args.kind \notin InConstructor /\ ~NothingBuilt) => op \in {"compile", "build", "forward"}
    /\ (args.kind \in InConstructor /\ op = "__init__" /\ err = NoError)
            => (layer.outputs # <<>> /\ layer.weights = NewVariables)

C4_Witness ==
    /\ op = "__init__"
    /\ pc = "constructed"
    /\ layer.kind = "InstanceNorm"
    /\ store # <<>>
    /\ NothingBuilt


\* the errors the validation checks raise
ValidationErrors ==
    { PaddingError, DecayError, DataFormatError,
      [type |-> "Exception", msg |-> "GroupNorm only supports 2D images."],
      [type |-> "ValueError", msg |-> "data_format must be 'channels_last' or 'channels_first'."],
      [type |-> "ValueError", msg |-> "Invalid groups"],
      [type |-> "ValueError", msg |-> "not commensurate"] }

\* C5: a call that a validation check rejects leaves the variable store and
\* the layer's registered weights as they were before the call.
C5_RejectionAllocatesNothing ==
    [][(err = NoError /\ err' \in ValidationErrors)
          => (store' = store /\ layer'.weights = layer.weights
              /\ layer'.local_weights = layer.local_weights)]_vars

C5_Witness ==
    /\ layer.kind = "GroupNorm"
    /\ op = "build"
    /\ err = [type |-> "ValueError", msg |-> "Invalid groups"]
    /\ store # <<>>
    /\ layer.weights = <<>>

\* C6: after compile of an atrous layer, with b_init None the weight matrix
\* is the only variable allocated and the output is convolution then
\* activation; with an initializer one weight matrix and one bias are
\* allocated and the output is convolution, bias_add, activation.
C6_BiasSkippedIffNone ==
    (layer.kind \in Atrous /\ op = "compile")
        => LET conv == IF layer.kind = "AtrousConv2dLayer"
                       THEN "atrous_conv2d" ELSE "atrous_conv2d_transpose"
               W == "W_" \o conv
               b == "b_" \o conv
           IN IF args.b_init = None
              THEN /\ Names(NewVariables) = <<W>>
                   /\ layer.outputs = <<conv, "_apply_activation">>
              ELSE /\ Names(NewVariables) = <<W, b>>
                   /\ layer.outputs = <<conv, "bias_add", "_apply_activation">>

C6_Witness ==
    /\ layer.kind = "AtrousDeConv2dLayer"
    /\ op = "compile"
    /\ args.b_init = None
    /\ Len(NewVariables) = 1
    /\ Len(layer.outputs) = 2

\* C7: the parameters a BatchNorm layer registers are beta (unless beta_init
\* is None), gamma (unless gamma_init is None), moving_mean, moving_variance,
\* in this order.
C7_BatchNormParams ==
    (layer.kind = "BatchNorm")
        => LET n == (IF args.beta_init # None THEN 1 ELSE 0)
                    + (IF args.gamma_init # None THEN 1 ELSE 0)
           IN /\ Names(layer.weights)
                    = (IF args.beta_init # None THEN <<"beta">> ELSE <<>>)
                      \o (IF args.gamma_init # None THEN <<"gamma">> ELSE <<>>)
                      \o <<"moving_mean", "moving_variance">>
              /\ Len(layer.weights) = 2 + n
              /\ layer.weights = NewVariables

C7_Witness ==
    /\ layer.kind = "BatchNorm"
    /\ args.beta_init # None
    /\ args.gamma_init # None
    /\ Len(layer.weights) = 4

\* the moving average after one update with a batch statistic
Updated(moving, value, decay) ==
    moving - (((Resolution - decay) * (moving - value)) \div Resolution)

\* C8: an evaluation of a BatchNorm output built with is_train=True
\* normalizes with the batch's mean and variance and updates both moving
\* averages; one built with is_train=False normalizes with the stored moving
\* averages and changes neither.
C8_UpdateOnlyWhenTraining ==
    [][(run'.n = run.n + 1)
          => IF args.is_train
             THEN /\ run'.mean = run'.batch.mean
                  /\ run'.variance = run'.batch.variance
                  /\ layer'.moving_mean
                        = Updated(layer.moving_mean, run'.batch.mean, args.decay)
                  /\ layer'.moving_variance
                        = Updated(layer.moving_variance, run'.batch.variance, args.decay)
             ELSE /\ run'.mean = layer.moving_mean
                  /\ run'.variance = layer.moving_variance
                  /\ layer'.moving_mean = layer.moving_mean
                  /\ layer'.moving_variance = layer.moving_variance
                  /\ layer'.moving_mean = 0
                  /\ layer'.moving_variance = Resolution]_vars

C8_Witness ==
    /\ layer.kind = "BatchNorm"
    /\ args.is_train
    /\ run.n = MaxEvals
    /\ layer.moving_mean # 0
    /\ layer.moving_variance # Resolution

\* C9: an atrous constructor accepts every casing of "same" and "valid", and
\* the padding a constructed layer stores, which compile gives the
\* convolution op, is "SAME" or "VALID" in upper case.
C9_PaddingNormalized ==
    args.kind \in Atrous
        => /\ \A w \in {SAME, VALID} :
                args.padding \in Casings(w)
                    => (err = NoError /\ layer.kind = args.kind /\ layer.padding = w)
           /\ layer.kind \in Atrous => layer.padding \in {SAME, VALID}
           /\ op = "compile" => layer.op_padding = layer.padding

C9_Witness ==
    /\ layer.kind = "AtrousConv2dLayer"
    /\ args.padding = <<"v", "a", "L", "i", "d">>
    /\ op = "compile"
    /\ layer.op_padding = VALID

\* a configuration GroupNorm.build is to reject: a rank other than 4, an
\* unknown data_format, groups = 0, more groups than channels, or a channel
\* count that is no multiple of groups
Malformed ==
    \/ Len(layer.inputs) # 4
    \/ layer.data_format \notin {"channels_last", "channels_first"}
    \/ layer.groups = 0
    \/ layer.groups > ChannelCount(layer.data_format, layer.inputs)
    \/ PyMod(ChannelCount(layer.data_format, layer.inputs), layer.groups) # 0

GroupNormErrors ==
    { [type |-> "Exception", msg |-> "GroupNorm only supports 2D images."],
      [type |-> "ValueError", msg |-> "data_format must be 'channels_last' or 'channels_first'."],
      [type |-> "ValueError", msg |-> "Invalid groups"],
      [type |-> "ValueError", msg |-> "not commensurate"] }

\* C10: GroupNorm.build rejects a rank other than 4, an unknown data_format,
\* groups above the channel count and a channel count that is no multiple of
\* groups, each with its own error, the channel count being taken from the
\* last axis (channels_last) or axis 1 (channels_first); and for every
\* groups, 0 included, a malformed configuration ends in one of these errors.
C10_GroupNormRejections ==
    (layer.kind = "GroupNorm" /\ op = "build")
        => /\ Len(layer.inputs) # 4 => err = [type |-> "Exception",
                                              msg |-> "GroupNorm only supports 2D images."]
           /\ (Len(layer.inputs) = 4
                /\ layer.data_format \notin {"channels_last", "channels_first"})
                => err = [type |-> "ValueError",
                          msg |-> "data_format must be 'channels_last' or 'channels_first'."]
           /\ (Len(layer.inputs) = 4
                /\ layer.data_format \in {"channels_last", "channels_first"}
                /\ layer.groups # 0)
                => LET c == ChannelCount(layer.data_format, layer.inputs) IN
                   /\ layer.groups > c
                        => err = [type |-> "ValueError", msg |-> "Invalid groups"]
                   /\ (layer.groups <= c /\ PyMod(c, layer.groups) # 0)
                        => err = [type |-> "ValueError", msg |-> "not commensurate"]
           /\ Malformed => err \in GroupNormErrors

\* C11: BatchNorm takes the channel axis from data_format, the last axis for
\* channels_last and axis 1 (the second) for channels_first, and raises a
\* ValueError for another data_format; the shape of its parameters is the
\* input's size on that axis, and the moments are taken over the other axes,
\* which with the channel axis partition the input's axes.
C11_BatchNormChannelAxis ==
    (args.kind = "BatchNorm" /\ 0 <= args.decay /\ args.decay <= Resolution)
        => IF args.data_format \notin {"channels_last", "channels_first"}
           THEN pc = "raised" /\ err.type = "ValueError" /\ layer = NoLayer
           ELSE LET rank == Len(args.inputs)
                    ax == IF args.data_format = "channels_last" THEN rank ELSE 2
                IN /\ err = NoError
                   /\ \A i \in DOMAIN layer.weights :
                        layer.weights[i].shape = <<args.inputs[ax]>>
                   /\ ax \notin layer.axes
                   /\ layer.axes \cup {ax} = 1..rank
                   /\ Cardinality(layer.axes) = rank - 1

C11_Witness ==
    /\ layer.kind = "BatchNorm"
    /\ args.data_format = "channels_first"
    /\ args.inputs = <<1, 3, 1, 2>>
    /\ layer.axes = {1, 3, 4}
    /\ Len(layer.weights) = 4
    /\ layer.weights[1].shape = <<3>>

\* C12: AtrousConv2dLayer.compile allocates a weight of shape
\* [filter_size[0], filter_size[1], input channels, n_filter] and a bias of
\* length n_filter; AtrousDeConv2dLayer.compile allocates a weight of the
\* configured shape (filter_height, filter_width, out_channels, in_channels)
\* and a bias of length out_channels, and asks for the deconvolution's output
\* shape with out_channels as its channel size.
C12_AtrousWeightShapes ==
    (layer.kind \in Atrous /\ op = "compile")
        => LET W == NewVariables[1]
               in_channels == layer.inputs[Len(layer.inputs)]
           IN /\ Len(NewVariables) = IF args.b_init = None THEN 1 ELSE 2
              /\ layer.kind = "AtrousConv2dLayer"
                    => /\ W.shape = <<args.filter_size[1], args.filter_size[2],
                                      in_channels, args.n_filter>>
                       /\ args.b_init # None
                            => NewVariables[2].shape = <<args.n_filter>>
              /\ layer.kind = "AtrousDeConv2dLayer"
                    => /\ W.shape = args.shape
                       /\ args.b_init # None
                            => NewVariables[2].shape = <<args.shape[3]>>
                       /\ layer.out_shape
                            = <<args.shape[1], args.shape[2], 1, 1, args.shape[3]>>

C12_Witness ==
    /\ layer.kind = "AtrousDeConv2dLayer"
    /\ op = "compile"
    /\ args.shape = <<3, 3, 2, 1>>
    /\ args.b_init # None
    /\ Len(NewVariables) = 2
    /\ NewVariables[2].shape = <<2>>

\* an input build is to accept: 4-D, and for GroupNorm a known data_format and
\* a positive groups that is at most, and divides, the channel count
ValidBuildInput ==
    /\ Len(layer.inputs) = 4
    /\ layer.kind = "GroupNorm"
        => /\ layer.data_format \in {"channels_last", "channels_first"}
           /\ layer.groups > 0
           /\ layer.groups <= ChannelCount(layer.data_format, layer.inputs)
           /\ PyMod(ChannelCount(layer.data_format, layer.inputs), layer.groups) = 0

\* the variables build is to create and register, by name
BuildWeights ==
    CASE layer.kind = "InstanceNorm" -> <<"\\scale", "\\offset">>
      [] layer.kind = "GroupNorm" -> <<"gamma", "beta">>
      [] layer.kind = "SwitchNorm" -> <<"gamma", "beta", "mean_weight", "var_weight">>

\* C13: build of InstanceNorm, GroupNorm and SwitchNorm against a valid input
\* completes without error and registers as the layer's weights exactly the
\* variables it created: scale and offset; gamma and beta; gamma, beta,
\* mean_weight and var_weight, SwitchNorm's gamma and beta initialized by the
\* constructor's gamma_init and beta_init.
C13_BuildRegistersItsVariables ==
    (layer.kind \in {"InstanceNorm", "GroupNorm", "SwitchNorm"} /\ op = "build"
        /\ ValidBuildInput)
        => /\ err = NoError
           /\ pc = "built"
           /\ Names(NewVariables) = BuildWeights
           /\ layer.weights = NewVariables
           /\ layer.kind = "SwitchNorm"
                => /\ NewVariables[1].initializer = args.gamma_init
                   /\ NewVariables[2].initializer = args.beta_init

====
